---- MODULE Spec2Model ----
(***************************************************************************)
(* SimpleDay: the WebDAV synchronisation service (services/webdav.ts,      *)
(* class WebDAVService) together with the parts of the crypto service and  *)
(* of the settings storage it calls.                                       *)
(*                                                                         *)
(* A filename is a sequence of segments: "A.md.enc" is <<"A",".md",".enc">>*)
(* so that endsWith, the '.enc' append and slice(0,-4) act on the last     *)
(* segment.  A file content is the sequence of its ':'-delimited parts, so *)
(* that split(':') is the identity and parts.length is Len.                *)
(***************************************************************************)
EXTENDS Integers, Sequences, FiniteSets, TLC

VARIABLES
    stored,     \* settings storage, key 'webdav_config'
    lastSync,   \* settings storage, key 'last_sync_time'
    dirExists,  \* whether the local 'diary' directory exists
    local,      \* local content store: filename -> content or Absent
    remote,     \* remote WebDAV collection: object name -> body or Absent
    fg,         \* the foreground call of the service (awaited by the screen)
    faults,     \* number of faults injected so far
    log,        \* network requests issued by the current foreground call
    told,       \* onProgress calls received during the current foreground call
    snap,       \* both stores as they were when the current call listed them
    chain,      \* progress of handleSyncBoth followed by a status check
    bg,         \* background transfers started by syncAfterSave/syncAfterDelete
    gestures,   \* number of user gestures so far, where they are bounded
    crypt,      \* a call of the crypto service on its own: arguments and result
    secure,     \* platform secure storage, key 'webdav_password_secure'
    load,       \* a load of the configuration with its migration of the password
    call,       \* a call of a helper of the sync service on its own: arguments, results
    entry       \* the entry screen's last save: the name opened and the name written

vars == <<stored, lastSync, dirExists, local, remote, fg, faults, log, told, snap, chain,
          bg, gestures, crypt, secure, load, call, entry>>

\* The state of the sync service and of the entry screen.
syncVars == <<lastSync, dirExists, local, remote, fg, faults, log, told, snap, chain,
              bg, gestures, entry>>

-----------------------------------------------------------------------------
(* Bounds of the model *)

MaxFaults == 2
MaxGestures == 2

-----------------------------------------------------------------------------
(* Names *)

MD == ".md"
ENC == ".enc"

Files == {"A", "B", "C"}

\* The order in which a directory listing and a PROPFIND answer enumerate.
ListOrder == <<"A", "B", "C">>

LocalNames == {<<b, MD>> : b \in Files}
RemoteNames == LocalNames \cup {<<b, MD, ENC>> : b \in Files}

\* No file of that name: a content has at least one part.
Absent == <<>>

endsWith(name, suffix) == Len(name) > 0 /\ name[Len(name)] = suffix

\* filename.slice(0, -4) on a name ending in '.enc'
sliceEnc(name) == SubSeq(name, 1, Len(name) - 1)

\* filename + '.enc'
plusEnc(name) == Append(name, ENC)

Range(s) == {s[i] : i \in 1..Len(s)}

-----------------------------------------------------------------------------
(* Contents and the crypto service *)

Text(v) == [kind |-> "text", v |-> v]

P == <<Text("p")>>
Q == <<Text("q")>>

NoKey == "nokey"
K1 == "K1"
K2 == "K2"

Salts == {"s1"}
IVs == {"iv1"}

\* encryptContent: `${salt}:${iv}:${encrypted}`
encryptContent(plaintext, key, salt, iv) ==
    <<Text(salt), Text(iv), [kind |-> "aes", key |-> key, iv |-> iv, pt |-> plaintext]>>

\* Bytes of a failed decryption that happen to be text.
Garbage == <<Text("garbage")>>

Throws == [ok |-> FALSE, text |-> <<>>]
Returns(t) == [ok |-> TRUE, text |-> t]

\* A decryptContent that only asks for at least three parts.
decryptContent_AtLeastThree(ciphertext, key) ==
    IF Len(ciphertext) < 3 THEN {Throws}
    ELSE LET iv == ciphertext[2]
             encrypted == ciphertext[3]
         IN IF /\ encrypted.kind = "aes"
               /\ encrypted.key = key
               /\ iv = Text(encrypted.iv)
            THEN {Returns(encrypted.pt)}
            ELSE {Throws, Returns(<<Text("")>>), Returns(Garbage)}

\* A decryptContent that takes an empty result for a failed decryption.
decryptContent_RejectsEmpty(ciphertext, key) ==
    IF Len(ciphertext) # 3 THEN {Throws}
    ELSE LET iv == ciphertext[2]
             encrypted == ciphertext[3]
         IN IF /\ encrypted.kind = "aes"
               /\ encrypted.key = key
               /\ iv = Text(encrypted.iv)
            THEN {IF encrypted.pt = <<Text("")>> THEN Throws ELSE Returns(encrypted.pt)}
            ELSE {Throws, Returns(Garbage)}

\* decryptContent: the set of outcomes of one call.  A payload that does not
\* split into three parts throws.  AES-CBC under the key and IV that produced
\* the ciphertext returns the plaintext.  Under any other key or IV, or on a
\* third part that is no ciphertext, AES.decrypt yields arbitrary bytes, the
\* padding is stripped unchecked, and toString(Utf8) throws (malformed
\* UTF-8), returns the empty string (nothing left after the padding) or
\* returns the bytes as text.
decryptContent(ciphertext, key) ==
    IF Len(ciphertext) # 3 THEN {Throws}
    ELSE LET iv == ciphertext[2]
             encrypted == ciphertext[3]
         IN IF /\ encrypted.kind = "aes"
               /\ encrypted.key = key
               /\ iv = Text(encrypted.iv)
            THEN {Returns(encrypted.pt)}
            ELSE {Throws, Returns(<<Text("")>>), Returns(Garbage)}

\* A call of the crypto service: encryptContent(plaintext, key) gave
\* `payload`, decryptContent(payload, dkey) gave `out`.
Crypt(pc, plaintext, key, payload, dkey, out) ==
    [pc |-> pc, plaintext |-> plaintext, key |-> key, payload |-> payload,
     dkey |-> dkey, out |-> out]

NoCrypt == Crypt("none", <<>>, NoKey, <<>>, NoKey, Throws)

\* Plaintexts: '', 'p', 'a:b', 'a:b:c' and 'a::b:c'.
Plaintexts ==
    {<<Text("")>>, P, <<Text("a"), Text("b")>>, <<Text("a"), Text("b"), Text("c")>>,
     <<Text("a"), Text(""), Text("b"), Text("c")>>}

Keys == {K1, K2}

\* What getRandomBytesAsync may give for the salt and for the IV.
RandomSalts == {"s1", "s2"}
RandomIVs == {"iv1", "iv2"}

\* Payloads handed to decryptContent as they come from a server: '', 'q',
\* 'x:y', a payload that lost its salt, 'x:y:z', a payload with a part
\* appended, one with a part put in front, and 'a:b:c:d:e'.
ReceivedPayloads ==
    LET payload == encryptContent(Q, K1, "s1", "iv1") IN
    {<<Text("")>>, Q, <<Text("x"), Text("y")>>, SubSeq(payload, 2, 3),
     <<Text("x"), Text("y"), Text("z")>>, payload,
     Append(payload, Text("x")), <<Text("x")>> \o payload,
     <<Text("a"), Text("b"), Text("c"), Text("d"), Text("e")>>}

-----------------------------------------------------------------------------
(* Credentials *)

\* A credential string: its characters, or the base64 text that encodes them.
Str(b64, chars) == [b64 |-> b64, chars |-> chars]
Empty == Str(FALSE, <<>>)

\* Character codes, two bits wide, and their bitwise exclusive or.
CharXor(a, b) == ((a + b) % 2) + 2 * (((a \div 2) + (b \div 2)) % 2)

LEGACY_CREDENTIAL_KEY == <<1, 2, 3>>

\* xorCipher: character i of the input with character i % key.length of the key.
xorCipher(input, key) ==
    [i \in 1..Len(input) |-> CharXor(input[i], key[((i - 1) % Len(key)) + 1])]

\* btoa and atob; btoa('') is ''.
btoa(chars) == IF chars = <<>> THEN Empty ELSE Str(TRUE, chars)
atob(str) == str.chars

\* encrypt of the legacy crypto service, which wrote the legacy field.
encrypt(plaintext) == btoa(xorCipher(plaintext.chars, LEGACY_CREDENTIAL_KEY))

\* A decryptLegacy that decodes and forgets the exclusive or.
decryptLegacy_NoXor(ciphertext) ==
    IF ciphertext.b64 THEN Str(FALSE, atob(ciphertext)) ELSE ciphertext

\* decryptLegacy: atob, then xorCipher; a text atob rejects is returned as
\* it came.
decryptLegacy(ciphertext) ==
    IF ciphertext.b64 \/ ciphertext = Empty
    THEN Str(FALSE, xorCipher(atob(ciphertext), LEGACY_CREDENTIAL_KEY))
    ELSE ciphertext

Passwords == {Str(FALSE, <<1>>), Str(FALSE, <<2, 3>>), Str(FALSE, <<3, 0, 1, 2>>)}

\* Secure storage: getItemAsync gives null until setItemAsync has stored.
Secret(has, password) == [has |-> has, password |-> password]
NoSecret == Secret(FALSE, Empty)

\* storePassword(password) and getPassword()
storePassword(password) == Secret(TRUE, password)
getPassword == secure

\* A load of the configuration: its position in the migration, the
\* configuration object in memory, the decrypted legacy password and the
\* password the load ends with.  `legacy` tells whether the load found the
\* legacy field, `before` is what it found at its start, `migrated` whether
\* a migration has finished since the settings were last saved, `saved`
\* whether the settings screen has saved, `origin` the password the user
\* entered last.
Load(pc, config, value, result) ==
    [pc |-> pc, config |-> config, value |-> value, result |-> result,
     legacy |-> FALSE, migrated |-> FALSE, saved |-> FALSE, origin |-> Empty,
     before |-> [stored |-> config, secure |-> NoSecret]]

-----------------------------------------------------------------------------
(* Configuration *)

\* The record of 'webdav_config'; `password` is the obfuscated password the
\* settings screen writes, empty when none was entered.
Config(present, url, enabled, encryptionEnabled, encryptionKey) ==
    [present |-> present, url |-> url, enabled |-> enabled,
     encryptionEnabled |-> encryptionEnabled, encryptionKey |-> encryptionKey,
     password |-> Empty]

\* storage.getItem('webdav_config') found nothing; also getConfig's null.
Null == Config(FALSE, "", FALSE, FALSE, NoKey)

NoLoad == Load("none", Null, Empty, NoSecret)

\* The records that 'webdav_config' may hold.
StoredConfigs ==
    {Null,
     Config(TRUE, "u", FALSE, FALSE, NoKey),
     Config(TRUE, "", TRUE, FALSE, NoKey),
     Config(TRUE, "u", TRUE, FALSE, NoKey),
     Config(TRUE, "u", TRUE, FALSE, K1),
     Config(TRUE, "u", TRUE, TRUE, NoKey),
     Config(TRUE, "u", TRUE, TRUE, K1)}

\* A getConfig that forgets the `enabled` switch.
getConfig_IgnoresEnabled(configStr) ==
    IF ~configStr.present THEN Null
    ELSE IF configStr.url = "" THEN Null
    ELSE configStr

\* getConfig: null when nothing is stored, when sync is disabled or when the
\* URL is empty.
getConfig(configStr) ==
    IF ~configStr.present THEN Null
    ELSE IF ~configStr.enabled \/ configStr.url = "" THEN Null
    ELSE configStr

\* config.encryptionEnabled && config.encryptionKey
useKey(config) == config.encryptionEnabled /\ config.encryptionKey # NoKey

-----------------------------------------------------------------------------
(* Listings and the status snapshot *)

LocalOrder == [i \in 1..Len(ListOrder) |-> <<ListOrder[i], MD>>]

\* The hrefs of a PROPFIND answer, in the order the server lists them.
HrefOrder ==
    [i \in 1..(2 * Len(ListOrder)) |->
        IF i % 2 = 1 THEN <<ListOrder[(i + 1) \div 2], MD>>
        ELSE <<ListOrder[i \div 2], MD, ENC>>]

SeqMap(f(_), s) == [i \in 1..Len(s) |-> f(s[i])]

\* (await diaryDir.list()).filter(f => f.name.endsWith('.md')).map(f => f.name)
listLocal(store) ==
    SelectSeq(LocalOrder, LAMBDA n : store[n] # Absent /\ endsWith(n, MD))

\* A suffix in lower case: the pattern of listRemoteFiles ignores case.
lower(suffix) ==
    IF suffix = ".MD" THEN MD ELSE IF suffix = ".ENC" THEN ENC ELSE suffix

\* The regular expression of listRemoteFiles applied to one href.
filePattern(config, href) ==
    IF config.encryptionEnabled
    THEN Len(href) > 2 /\ lower(href[Len(href)]) = ENC
                       /\ lower(href[Len(href) - 1]) = MD
    ELSE Len(href) > 1 /\ lower(href[Len(href)]) = MD

\* The name listRemoteFiles derives from a matched href.
remoteEntryName(config, href) ==
    IF config.encryptionEnabled /\ endsWith(href, ENC) THEN sliceEnc(href) ELSE href

\* A listRemoteFiles that does not filter the names it derived.
parseHrefs_NoFilter(config, hrefs) ==
    LET fileMatches == SelectSeq(hrefs, LAMBDA h : filePattern(config, h))
    IN SeqMap(LAMBDA h : remoteEntryName(config, h), fileMatches)

\* listRemoteFiles on the hrefs of an answered PROPFIND: match, map, filter.
parseHrefs(config, hrefs) ==
    LET fileMatches == SelectSeq(hrefs, LAMBDA h : filePattern(config, h))
        names == SeqMap(LAMBDA h : remoteEntryName(config, h), fileMatches)
    IN SelectSeq(names, LAMBDA n : endsWith(n, MD))

\* listRemoteFiles on the answer of a collection that holds the objects of
\* the store.
parseListing(config, store) ==
    parseHrefs(config, SelectSeq(HrefOrder, LAMBDA h : store[h] # Absent))

Status(inSync, localOnly, remoteOnly, nLocal, nRemote) ==
    [inSync |-> inSync, localOnly |-> localOnly, remoteOnly |-> remoteOnly,
     total |-> [local |-> nLocal, remote |-> nRemote]]

\* The result checkSyncStatus starts from and returns on its early paths.
DefaultStatus == Status(TRUE, <<>>, <<>>, 0, 0)

\* A checkSyncStatus that filters the remote names against themselves.
computeStatus_RemoteAgainstRemote(localFiles, remoteFiles) ==
    LET localOnly == SelectSeq(localFiles, LAMBDA f : f \notin Range(remoteFiles))
        remoteOnly == SelectSeq(remoteFiles, LAMBDA f : f \notin Range(remoteFiles))
    IN Status(Len(localOnly) = 0 /\ Len(remoteOnly) = 0,
              localOnly, remoteOnly, Len(localFiles), Len(remoteFiles))

\* checkSyncStatus once both listings are in hand.
computeStatus(localFiles, remoteFiles) ==
    LET localOnly == SelectSeq(localFiles, LAMBDA f : f \notin Range(remoteFiles))
        remoteOnly == SelectSeq(remoteFiles, LAMBDA f : f \notin Range(localFiles))
    IN Status(Len(localOnly) = 0 /\ Len(remoteOnly) = 0,
              localOnly, remoteOnly, Len(localFiles), Len(remoteFiles))

-----------------------------------------------------------------------------
(* Results, requests and the foreground call *)

Err(msg, file) == [msg |-> msg, file |-> file]

Result(success, count, errors) ==
    [success |-> success, count |-> count, errors |-> errors]

NotConfigured == Result(FALSE, 0, <<Err("WebDAV not configured", <<>>)>>)
NoFilesFound == Result(TRUE, 0, <<Err("No files found on WebDAV server", <<>>)>>)
NothingToDo == Result(TRUE, 0, <<>>)

Req(method, name, body, enc, ok) ==
    [method |-> method, name |-> name, body |-> body, enc |-> enc, ok |-> ok]

\* One onProgress call; `at` is the number of requests issued before it.
Progress(current, total, filename, at) ==
    [current |-> current, total |-> total, filename |-> filename, at |-> at]

\* A foreground call: `i` is the position of the next file of the loop and
\* `flying` holds the positions whose transfer was called and has not
\* returned yet.
Call(op, pc, localFiles, files, i, result, status) ==
    [op |-> op, pc |-> pc, localFiles |-> localFiles, files |-> files, i |-> i,
     flying |-> {}, result |-> result, status |-> status]

Idle == Call("none", "idle", <<>>, <<>>, 0, NothingToDo, DefaultStatus)

\* No helper is called on its own.
NoCall == [op |-> "none"]

\* No entry is open in the entry screen: params.filename is absent.
NoName == <<>>

\* What the entry screen saved last: params.filename and the name written.
Entry(opened, saved) == [opened |-> opened, saved |-> saved]
NoEntry == Entry(NoName, NoName)

EmptyLocal == [n \in LocalNames |-> Absent]
EmptyRemote == [n \in RemoteNames |-> Absent]

\* The local store as the call listed it and the remote store as it was when
\* the call asked for its listing.
Snap(listed, localStore, remoteStore) ==
    [listed |-> listed, local |-> localStore, remote |-> remoteStore]

NoSnap == Snap(FALSE, EmptyLocal, EmptyRemote)

\* The entries of a local store and, under a configuration, of a remote store
\* (data model: the local file index and the remote file index).
localEntries(store) == {n \in LocalNames : store[n] # Absent}
remoteObject(config, n) == IF config.encryptionEnabled THEN plusEnc(n) ELSE n
remoteEntries(config, store) ==
    {n \in LocalNames : store[remoteObject(config, n)] # Absent}

\* A loop body that counts a file before looking at the transfer's outcome.
tally_CountsAttempts(result, ok, msg, filename) ==
    IF ok THEN [result EXCEPT !.count = result.count + 1]
    ELSE [result EXCEPT !.count = result.count + 1,
                        !.errors = Append(result.errors, Err(msg, filename))]

\* result.imported++ / result.uploaded++, or result.errors.push(...)
tally(result, ok, msg, filename) ==
    IF ok THEN [result EXCEPT !.count = result.count + 1]
    ELSE [result EXCEPT !.errors = Append(result.errors, Err(msg, filename))]

\* An import that downloads every remote file.
filesToDownload_All(remoteFiles, localFiles) == remoteFiles

\* remoteFiles.filter(f => !localFiles.includes(f))
filesToDownload(remoteFiles, localFiles) ==
    SelectSeq(remoteFiles, LAMBDA f : f \notin Range(localFiles))

Chain(stage, U) == [stage |-> stage, U |-> U]
NoChain == Chain("none", {})

\* Every request of the chain has to be answered and every transfer has to
\* succeed for the chain to go on.
chainStep(good) == IF good THEN chain ELSE NoChain
chainEnd(good) ==
    IF ~good THEN NoChain
    ELSE IF chain.stage = "syncing" THEN Chain("synced", chain.U)
    ELSE IF chain.stage = "importing" THEN Chain("imported", chain.U)
    ELSE IF chain.stage = "checking" THEN Chain("checked", chain.U)
    ELSE NoChain

\* A request is answered, or it fails (an exception or an error status) while
\* the fault budget lasts.
Answer(ok) ==
    /\ ok \/ faults < MaxFaults
    /\ faults' = IF ok THEN faults ELSE faults + 1

CanStart == fg.pc \in {"idle", "done"}

\* A loop that does not await its transfers.
awaitTransfer_Missing == TRUE

\* `await this.downloadFile(...)`, `await this.uploadFile(...)`: the loop
\* goes on only when the transfer it called has returned.
awaitTransfer == fg.flying = {}

\* A callback call that reports the zero-based loop index.
onProgress_ZeroBased(current, total, filename) ==
    told' = Append(told, Progress(current - 1, total, filename, Len(log)))

\* onProgress(i + 1, total, filename), as the screen receives it.
onProgress(current, total, filename) ==
    told' = Append(told, Progress(current, total, filename, Len(log)))

-----------------------------------------------------------------------------
(* Init *)

InitLocalStores == [LocalNames -> {Absent, P}]
InitRemoteStores ==
    {r \in [RemoteNames -> {Absent, Q, encryptContent(Q, K1, "s1", "iv1")}] :
        \A n \in RemoteNames :
            /\ endsWith(n, ENC) => r[n] # Q
            /\ ~endsWith(n, ENC) => r[n] \in {Absent, Q}}

Init ==
    /\ stored \in StoredConfigs
    /\ lastSync = "old"
    /\ dirExists \in BOOLEAN
    /\ local \in InitLocalStores
    /\ dirExists \/ local = EmptyLocal
    /\ remote \in InitRemoteStores
    /\ fg = Idle
    /\ faults = 0
    /\ log = <<>>
    /\ told = <<>>
    /\ snap = NoSnap
    /\ chain = NoChain
    /\ bg = <<>>
    /\ gestures = 0
    /\ entry = NoEntry
    /\ crypt = NoCrypt
    /\ secure = NoSecret
    /\ load = NoLoad
    /\ call = NoCall

-----------------------------------------------------------------------------
(* listRemoteFiles *)

\* listRemoteFiles, the value returned: [] when sync is not configured and
\* when the request fails, the parsed answer otherwise.
listRemoteFiles(ok) ==
    LET config == getConfig(stored) IN
    IF config = Null \/ ~ok THEN <<>> ELSE parseListing(config, remote)

\* listRemoteFiles, the request: none when sync is not configured.
Propfind(ok) ==
    LET config == getConfig(stored) IN
    IF config = Null
    THEN ok /\ UNCHANGED <<faults, log>>
    ELSE /\ Answer(ok)
         /\ log' = Append(log, Req("PROPFIND", <<>>, <<>>, config.encryptionEnabled, ok))

-----------------------------------------------------------------------------
(* checkSyncStatus *)

CheckStart ==
    /\ CanStart
    /\ LET config == getConfig(stored) IN
       IF config = Null
       THEN /\ fg' = Call("check", "done", <<>>, <<>>, 0, NothingToDo, DefaultStatus)
            /\ chain' = NoChain
       ELSE /\ fg' = Call("check", "list", IF dirExists THEN listLocal(local) ELSE <<>>,
                          <<>>, 0, NothingToDo, DefaultStatus)
            /\ chain' = IF chain.stage = "imported"
                        THEN Chain("checking", chain.U) ELSE NoChain
    /\ log' = <<>>
    /\ told' = <<>>
    /\ snap' = Snap(FALSE, local, EmptyRemote)
    /\ UNCHANGED <<entry, call, crypt, secure, load, stored, lastSync, dirExists, local, remote, faults, bg>>

CheckList ==
    /\ fg.op = "check" /\ fg.pc = "list"
    /\ \E ok \in BOOLEAN :
         /\ Propfind(ok)
         /\ fg' = [fg EXCEPT !.pc = "done",
                             !.status = computeStatus(fg.localFiles, listRemoteFiles(ok))]
         /\ chain' = chainEnd(ok)
    /\ snap' = Snap(TRUE, snap.local, remote)
    /\ UNCHANGED <<entry, call, crypt, secure, load, stored, lastSync, dirExists, local, remote, told, bg, gestures>>

-----------------------------------------------------------------------------
(* uploadFile and syncAllToWebDAV *)

\* An uploadFile that appends the suffix without looking at the name.
uploadName_AlwaysAppends(config, filename) ==
    IF useKey(config) THEN plusEnc(filename) ELSE filename

\* The name uploadFile PUTs to.
uploadName(config, filename) ==
    IF useKey(config)
    THEN (IF endsWith(filename, ENC) THEN filename ELSE plusEnc(filename))
    ELSE filename

\* uploadFile from the content it read on: encryption, the PUT and its
\* answer.
putContent(config, filename, content, success) ==
    \/ \* encryptContent throws: nothing is sent
       /\ useKey(config)
       /\ success = FALSE
       /\ Answer(FALSE)
       /\ UNCHANGED <<remote, log>>
    \/ \E salt \in Salts, iv \in IVs :
         LET body == IF useKey(config)
                     THEN encryptContent(content, config.encryptionKey, salt, iv)
                     ELSE content
             name == uploadName(config, filename)
         IN /\ Answer(success)
            /\ log' = Append(log, Req("PUT", name, body,
                                      config.encryptionEnabled, success))
            /\ remote' = IF success THEN [remote EXCEPT ![name] = body] ELSE remote

\* uploadFile(filename), returning success.
uploadFile(filename, success) ==
    LET config == getConfig(stored) IN
    IF config = Null \/ local[filename] = Absent
    THEN /\ success = FALSE
         /\ UNCHANGED <<remote, faults, log>>
    ELSE putContent(config, filename, local[filename], success)

\* Writing 'last_sync_time': storage.setItem rethrows a failed write.
setLastSync(ok) ==
    /\ Answer(ok)
    /\ lastSync' = IF ok THEN "new" ELSE lastSync

SyncStart ==
    /\ CanStart
    /\ LET config == getConfig(stored) IN
       IF config = Null
       THEN /\ fg' = Call("syncAll", "done", <<>>, <<>>, 0, NotConfigured, DefaultStatus)
            /\ chain' = NoChain
       ELSE IF ~dirExists
       THEN /\ fg' = Call("syncAll", "done", <<>>, <<>>, 0, NothingToDo, DefaultStatus)
            /\ chain' = Chain("synced", localEntries(local) \cup remoteEntries(config, remote))
       ELSE /\ fg' = Call("syncAll", "list", listLocal(local), <<>>, 0,
                          NothingToDo, DefaultStatus)
            /\ chain' = Chain("syncing", localEntries(local) \cup remoteEntries(config, remote))
    /\ log' = <<>>
    /\ told' = <<>>
    /\ snap' = Snap(FALSE, local, EmptyRemote)
    /\ UNCHANGED <<entry, call, crypt, secure, load, stored, lastSync, dirExists, local, remote, faults, bg>>

SyncList ==
    /\ fg.op = "syncAll" /\ fg.pc = "list"
    /\ \E ok \in BOOLEAN :
         LET syncStatus == computeStatus(fg.localFiles, listRemoteFiles(ok))
             filesToUpload == syncStatus.localOnly
         IN /\ Propfind(ok)
            /\ IF Len(filesToUpload) = 0
               THEN /\ fg' = [fg EXCEPT !.pc = "done", !.status = syncStatus]
                    /\ chain' = chainEnd(ok)
               ELSE /\ fg' = [fg EXCEPT !.pc = "loop", !.status = syncStatus,
                                        !.files = filesToUpload, !.i = 1]
                    /\ chain' = chainStep(ok)
    /\ snap' = Snap(TRUE, snap.local, remote)
    /\ UNCHANGED <<entry, call, crypt, secure, load, stored, lastSync, dirExists, local, remote, told, bg, gestures>>

\* The head of the upload loop: uploadFile is called for the next file.
SyncCall ==
    /\ fg.op = "syncAll" /\ fg.pc = "loop"
    /\ fg.i <= Len(fg.files)
    /\ awaitTransfer
    /\ fg' = [fg EXCEPT !.i = fg.i + 1, !.flying = fg.flying \cup {fg.i}]
    /\ UNCHANGED <<entry, call, crypt, secure, load, stored, lastSync, dirExists, local, remote, faults, log, told, snap,
                   chain, bg, gestures>>

\* uploadFile runs and returns; the rest of the loop body.
SyncUpload ==
    /\ fg.op = "syncAll" /\ fg.pc = "loop"
    /\ \E k \in fg.flying, uploaded \in BOOLEAN :
         LET filename == fg.files[k] IN
         /\ uploadFile(filename, uploaded)
         /\ fg' = [fg EXCEPT
                     !.flying = fg.flying \ {k},
                     !.pc = IF fg.i > Len(fg.files) /\ fg.flying = {k}
                            THEN "finish" ELSE "loop",
                     !.result = tally(fg.result, uploaded, "Failed to upload", filename)]
         /\ chain' = chainStep(uploaded)
    /\ UNCHANGED <<entry, call, crypt, secure, load, stored, lastSync, dirExists, local, told, snap, bg, gestures>>

\* After the loop: the timestamp, result.success, and the catch clause.
SyncFinish ==
    /\ fg.op = "syncAll" /\ fg.pc = "finish"
    /\ IF fg.result.count > 0
       THEN \E ok \in BOOLEAN :
              /\ setLastSync(ok)
              /\ fg' = [fg EXCEPT
                          !.pc = "done",
                          !.result = IF ok
                                     THEN [fg.result EXCEPT !.success =
                                             (Len(fg.result.errors) = 0)]
                                     ELSE [fg.result EXCEPT
                                             !.success = FALSE,
                                             !.errors = Append(fg.result.errors,
                                                               Err("exception", <<>>))]]
              /\ chain' = chainEnd(ok)
       ELSE /\ fg' = [fg EXCEPT !.pc = "done",
                                !.result.success = (Len(fg.result.errors) = 0)]
            /\ chain' = chainEnd(TRUE)
            /\ UNCHANGED <<lastSync, faults>>
    /\ UNCHANGED <<entry, call, crypt, secure, load, stored, dirExists, local, remote, log, told, snap, bg, gestures>>

-----------------------------------------------------------------------------
(* downloadFile and importFromWebDAV *)

\* The name downloadFile GETs.
downloadName(config, filename) ==
    IF config.encryptionEnabled /\ ~endsWith(filename, ENC)
    THEN plusEnc(filename) ELSE filename

\* The name downloadFile writes to.
saveName(filename) ==
    IF endsWith(filename, ENC) THEN sliceEnc(filename) ELSE filename

\* A downloadFile that writes what it received before it decrypts.
downloadFile_WritesFirst(filename, success) ==
    LET config == getConfig(stored) IN
    IF config = Null
    THEN /\ success = FALSE
         /\ UNCHANGED <<local, dirExists, faults, log>>
    ELSE LET name == downloadName(config, filename)
             get(ok) == Append(log, Req("GET", name, <<>>, config.encryptionEnabled, ok))
         IN IF remote[name] = Absent
            THEN /\ success = FALSE
                 /\ log' = get(FALSE)
                 /\ UNCHANGED <<local, dirExists, faults>>
            ELSE \/ /\ success = FALSE
                    /\ Answer(FALSE)
                    /\ log' = get(FALSE)
                    /\ UNCHANGED <<local, dirExists>>
                 \/ /\ Answer(TRUE)
                    /\ log' = get(TRUE)
                    /\ dirExists' = TRUE
                    /\ \E r \in (IF useKey(config)
                                 THEN decryptContent(remote[name], config.encryptionKey)
                                 ELSE {Returns(remote[name])}) :
                         /\ success = r.ok
                         /\ local' = [local EXCEPT ![saveName(filename)] =
                                        IF r.ok THEN r.text ELSE remote[name]]

\* downloadFile(filename), returning success.
downloadFile(filename, success) ==
    LET config == getConfig(stored) IN
    IF config = Null
    THEN /\ success = FALSE
         /\ UNCHANGED <<local, dirExists, faults, log>>
    ELSE LET name == downloadName(config, filename)
             get(ok) == Append(log, Req("GET", name, <<>>, config.encryptionEnabled, ok))
         IN IF remote[name] = Absent
            THEN \* 404
                 /\ success = FALSE
                 /\ log' = get(FALSE)
                 /\ UNCHANGED <<local, dirExists, faults>>
            ELSE \/ \* the request fails
                    /\ success = FALSE
                    /\ Answer(FALSE)
                    /\ log' = get(FALSE)
                    /\ UNCHANGED <<local, dirExists>>
                 \/ /\ Answer(TRUE)
                    /\ log' = get(TRUE)
                    /\ \E r \in (IF useKey(config)
                                 THEN decryptContent(remote[name], config.encryptionKey)
                                 ELSE {Returns(remote[name])}) :
                         IF r.ok
                         THEN /\ success = TRUE
                              /\ dirExists' = TRUE
                              /\ local' = [local EXCEPT ![saveName(filename)] = r.text]
                         ELSE /\ success = FALSE
                              /\ UNCHANGED <<local, dirExists>>

ImportStart ==
    /\ CanStart
    /\ LET config == getConfig(stored) IN
       IF config = Null
       THEN fg' = Call("import", "done", <<>>, <<>>, 0, NotConfigured, DefaultStatus)
       ELSE fg' = Call("import", "list", <<>>, <<>>, 0, NothingToDo, DefaultStatus)
    /\ chain' = IF getConfig(stored) # Null /\ chain.stage = "synced"
                THEN Chain("importing", chain.U) ELSE NoChain
    /\ log' = <<>>
    /\ told' = <<>>
    /\ snap' = Snap(FALSE, local, EmptyRemote)
    /\ UNCHANGED <<entry, call, crypt, secure, load, stored, lastSync, dirExists, local, remote, faults, bg>>

ImportList ==
    /\ fg.op = "import" /\ fg.pc = "list"
    /\ \E ok \in BOOLEAN :
         LET remoteFiles == listRemoteFiles(ok)
             localFiles == listLocal(local)
             files == filesToDownload(remoteFiles, localFiles)
         IN /\ Propfind(ok)
            /\ IF Len(remoteFiles) = 0
               THEN /\ fg' = [fg EXCEPT !.pc = "done", !.result = NoFilesFound]
                    /\ chain' = chainEnd(ok)
                    /\ UNCHANGED dirExists
               ELSE /\ fg' = [fg EXCEPT
                                !.pc = IF Len(files) = 0 THEN "finish" ELSE "loop",
                                !.localFiles = localFiles,
                                !.files = files,
                                !.i = 1]
                    /\ chain' = chainStep(ok)
                    /\ dirExists' = TRUE
    /\ snap' = Snap(TRUE, local, remote)
    /\ UNCHANGED <<entry, call, crypt, secure, load, stored, lastSync, local, remote, told, bg, gestures>>

\* The head of the download loop: onProgress, then downloadFile is called
\* for the next file.
ImportProgress ==
    /\ fg.op = "import" /\ fg.pc = "loop"
    /\ fg.i <= Len(fg.files)
    /\ awaitTransfer
    /\ LET filename == fg.files[fg.i]
           total == Len(fg.files)
       IN onProgress(fg.i, total, filename)
    /\ fg' = [fg EXCEPT !.i = fg.i + 1, !.flying = fg.flying \cup {fg.i}]
    /\ UNCHANGED <<entry, call, crypt, secure, load, stored, lastSync, dirExists, local, remote, faults, log, snap,
                   chain, bg, gestures>>

\* downloadFile runs and returns; the rest of the loop body.
ImportDownload ==
    /\ fg.op = "import" /\ fg.pc = "loop"
    /\ \E k \in fg.flying, downloaded \in BOOLEAN :
         LET filename == fg.files[k] IN
         /\ downloadFile(filename, downloaded)
         /\ fg' = [fg EXCEPT
                     !.flying = fg.flying \ {k},
                     !.pc = IF fg.i > Len(fg.files) /\ fg.flying = {k}
                            THEN "finish" ELSE "loop",
                     !.result = tally(fg.result, downloaded,
                                      "Failed to download", filename)]
         /\ chain' = chainStep(downloaded)
    /\ UNCHANGED <<entry, call, crypt, secure, load, stored, lastSync, remote, told, snap, bg, gestures>>

\* An import that writes the timestamp whatever it imported.
anyImported_Always(result) == TRUE

\* result.imported > 0
anyImported(result) == result.count > 0

\* After the loop: the timestamp, result.success, and the catch clause.
ImportFinish ==
    /\ fg.op = "import" /\ fg.pc = "finish"
    /\ IF anyImported(fg.result)
       THEN \E ok \in BOOLEAN :
              /\ setLastSync(ok)
              /\ fg' = [fg EXCEPT
                          !.pc = "done",
                          !.result = IF ok
                                     THEN [fg.result EXCEPT !.success =
                                             (Len(fg.result.errors) = 0)]
                                     ELSE [fg.result EXCEPT
                                             !.success = FALSE,
                                             !.errors = Append(fg.result.errors,
                                                               Err("exception", <<>>))]]
              /\ chain' = chainEnd(ok)
       ELSE /\ fg' = [fg EXCEPT !.pc = "done",
                                !.result.success = (Len(fg.result.errors) = 0)]
            /\ chain' = chainEnd(TRUE)
            /\ UNCHANGED <<lastSync, faults>>
    /\ UNCHANGED <<entry, call, crypt, secure, load, stored, dirExists, local, remote, log, told, snap, bg, gestures>>

-----------------------------------------------------------------------------
(* deleteFile, syncAfterSave, syncAfterDelete and the entry screen *)

\* The name deleteFile DELETEs.
deleteName(config, filename) ==
    IF config.encryptionEnabled /\ ~endsWith(filename, ENC)
    THEN plusEnc(filename) ELSE filename

\* A deleteFile that takes 404 for a failure.
deleteFile_NotFoundFails(filename, success) ==
    LET config == getConfig(stored) IN
    IF config = Null
    THEN /\ success = FALSE
         /\ UNCHANGED <<remote, faults, log>>
    ELSE LET name == deleteName(config, filename)
             found == remote[name] # Absent
         IN /\ success => found
            /\ IF found THEN Answer(success) ELSE UNCHANGED faults
            /\ log' = Append(log, Req("DELETE", name, <<>>, config.encryptionEnabled, success))
            /\ remote' = IF success THEN [remote EXCEPT ![name] = Absent] ELSE remote

\* deleteFile(filename), returning success: an answered DELETE removes the
\* object, and 404 for an object that is not there counts as success.
deleteFile(filename, success) ==
    LET config == getConfig(stored) IN
    IF config = Null
    THEN /\ success = FALSE
         /\ UNCHANGED <<remote, faults, log>>
    ELSE LET name == deleteName(config, filename) IN
         /\ Answer(success)
         /\ log' = Append(log, Req("DELETE", name, <<>>, config.encryptionEnabled, success))
         /\ remote' = IF success THEN [remote EXCEPT ![name] = Absent] ELSE remote

\* A background transfer; `content` is what an upload read from the local
\* file, once it has.
Task(kind, file, phase) ==
    [kind |-> kind, file |-> file, phase |-> phase, content |-> Absent]

Without(s, k) == [j \in 1..(Len(s) - 1) |-> IF j < k THEN s[j] ELSE s[j + 1]]

\* isConfigured()
isConfigured == getConfig(stored) # Null

\* A syncAfterSave that awaits the upload: the PUT is answered before the
\* call returns.
syncAfterSave_Awaits(filename) ==
    IF isConfigured
    THEN \E success \in BOOLEAN :
           /\ Answer(success)
           /\ log' = Append(log, Req("PUT", filename, <<>>, stored.encryptionEnabled, success))
           /\ UNCHANGED <<bg, remote>>
    ELSE UNCHANGED <<bg, remote, faults, log>>

\* syncAfterSave(filename): returns at once when sync is not configured;
\* otherwise uploadFile is started and left to run, and the call returns
\* before uploadFile has sent its request.
syncAfterSave(filename) ==
    /\ bg' = IF isConfigured THEN Append(bg, Task("upload", filename, "run")) ELSE bg
    /\ UNCHANGED <<remote, faults, log>>

\* syncAfterDelete(filename): the same with deleteFile.
syncAfterDelete(filename) ==
    /\ bg' = IF isConfigured THEN Append(bg, Task("delete", filename, "run")) ELSE bg
    /\ UNCHANGED <<remote, faults, log>>

\* One more gesture of the user, where gestures are bounded.
Gesture ==
    /\ gestures < MaxGestures
    /\ gestures' = gestures + 1

W == <<Text("w")>>

\* saveEntry of the entry screen: an entry opened as `old` (NoName for a new
\* entry) is written under the name its title gives; the old file is deleted
\* when the name changed; then syncAfterSave.
SaveEntry(old, filename) ==
    /\ Gesture
    /\ old # NoName => local[old] # Absent
    /\ dirExists' = TRUE
    /\ local' = IF old # NoName /\ old # filename
                THEN [local EXCEPT ![old] = Absent, ![filename] = W]
                ELSE [local EXCEPT ![filename] = W]
    /\ syncAfterSave(filename)
    /\ entry' = Entry(old, filename)
    /\ UNCHANGED <<call, crypt, secure, load, stored, lastSync, fg, told, snap, chain>>

\* deleteEntry of the entry screen: the file is deleted, then syncAfterDelete.
DeleteEntry(filename) ==
    /\ Gesture
    /\ local[filename] # Absent
    /\ local' = [local EXCEPT ![filename] = Absent]
    /\ syncAfterDelete(filename)
    /\ UNCHANGED <<entry, call, crypt, secure, load, stored, lastSync, dirExists, fg, told, snap, chain>>

\* A background uploadFile up to the content of the local file: it returns
\* false when the file is not there, and goes on to its request otherwise.
BgRead(k) ==
    /\ bg[k].kind = "upload" /\ bg[k].phase = "run"
    /\ bg' = IF getConfig(stored) = Null \/ local[bg[k].file] = Absent
             THEN Without(bg, k)
             ELSE [bg EXCEPT ![k].phase = "put", ![k].content = local[bg[k].file]]
    /\ UNCHANGED <<entry, call, crypt, secure, load, stored, lastSync, dirExists, local, remote, fg,
                   faults, log, told, snap, chain, gestures>>

\* The request of one background task and its answer; a successful transfer
\* goes on to write the timestamp.
BgTransfer(k) ==
    /\ bg[k].phase = IF bg[k].kind = "upload" THEN "put" ELSE "run"
    /\ \E success \in BOOLEAN :
         /\ IF bg[k].kind = "upload"
            THEN putContent(getConfig(stored), bg[k].file, bg[k].content, success)
            ELSE deleteFile(bg[k].file, success)
         /\ bg' = IF success THEN [bg EXCEPT ![k].phase = "stamp"] ELSE Without(bg, k)
    /\ UNCHANGED <<entry, call, crypt, secure, load, stored, lastSync, dirExists, local, fg, told, snap, chain, gestures>>

\* storage.setItem('last_sync_time', ...) of a background task; a failure is
\* caught and logged.
BgStamp(k) ==
    /\ bg[k].phase = "stamp"
    /\ \E ok \in BOOLEAN : setLastSync(ok)
    /\ bg' = Without(bg, k)
    /\ UNCHANGED <<entry, call, crypt, secure, load, stored, dirExists, local, remote, fg, log, told, snap, chain, gestures>>

-----------------------------------------------------------------------------

\* The sync screen alone: foreground calls one after the other.
Next ==
    \/ CheckStart /\ UNCHANGED gestures
    \/ CheckList
    \/ SyncStart /\ UNCHANGED gestures
    \/ SyncList
    \/ SyncCall
    \/ SyncUpload
    \/ SyncFinish
    \/ ImportStart /\ UNCHANGED gestures
    \/ ImportList
    \/ ImportProgress
    \/ ImportDownload
    \/ ImportFinish

Spec == Init /\ [][Next]_vars

TypeOK ==
    /\ fg.pc \in {"idle", "list", "loop", "finish", "done"}
    /\ faults \in 0..MaxFaults

\* The service with the entry screen: entries are saved and deleted while
\* foreground calls run, and their background transfers interleave.
InitEdit ==
    /\ Init
    /\ dirExists
    /\ local[<<"C", MD>>] = Absent
    /\ \A n \in RemoteNames :
         remote[n] # Absent => n = remoteObject(stored, <<"B", MD>>)

NextEdit ==
    \/ CheckStart /\ Gesture
    \/ CheckList
    \/ SyncStart /\ Gesture
    \/ SyncList
    \/ SyncCall
    \/ SyncUpload
    \/ SyncFinish
    \/ ImportStart /\ Gesture
    \/ ImportList
    \/ ImportProgress
    \/ ImportDownload
    \/ ImportFinish
    \/ \E old \in LocalNames \cup {NoName}, filename \in LocalNames : SaveEntry(old, filename)
    \/ \E filename \in LocalNames : DeleteEntry(filename)
    \/ \E k \in 1..Len(bg) : BgRead(k)
    \/ \E k \in 1..Len(bg) : BgTransfer(k)
    \/ \E k \in 1..Len(bg) : BgStamp(k)

SpecEdit == InitEdit /\ [][NextEdit]_vars

\* The crypto service on its own: encryptContent on a plaintext and a key,
\* then decryptContent on the payload under a key.
InitCrypto ==
    /\ stored = Null
    /\ lastSync = "old"
    /\ dirExists = FALSE
    /\ local = EmptyLocal
    /\ remote = EmptyRemote
    /\ fg = Idle
    /\ faults = 0
    /\ log = <<>>
    /\ told = <<>>
    /\ snap = NoSnap
    /\ chain = NoChain
    /\ bg = <<>>
    /\ gestures = 0
    /\ entry = NoEntry
    /\ secure = NoSecret
    /\ load = NoLoad
    /\ call = NoCall
    /\ \/ \E plaintext \in Plaintexts, key \in Keys :
            crypt = Crypt("start", plaintext, key, <<>>, NoKey, Throws)
       \/ \E payload \in ReceivedPayloads :
            crypt = Crypt("received", <<>>, NoKey, payload, NoKey, Throws)

Encrypt ==
    /\ crypt.pc = "start"
    /\ \E salt \in RandomSalts, iv \in RandomIVs :
         crypt' = [crypt EXCEPT
                     !.pc = "encrypted",
                     !.payload = encryptContent(crypt.plaintext, crypt.key, salt, iv)]
    /\ UNCHANGED <<call, syncVars, stored, secure, load>>

\* decryptContent on what encryptContent returned ("decrypted") or on a
\* payload as it was received ("answered").
Decrypt ==
    /\ crypt.pc \in {"encrypted", "received"}
    /\ \E key \in Keys :
         \E r \in decryptContent(crypt.payload, key) :
            crypt' = [crypt EXCEPT
                        !.pc = IF crypt.pc = "encrypted" THEN "decrypted" ELSE "answered",
                        !.dkey = key,
                        !.out = r]
    /\ UNCHANGED <<call, syncVars, stored, secure, load>>

NextCrypto == Encrypt \/ Decrypt

SpecCrypto == InitCrypto /\ [][NextCrypto]_vars

-----------------------------------------------------------------------------
(* The settings screen and the migration of the password *)

\* The settings screen and the loads of the configuration, on their own; the
\* legacy field holds the obfuscation of the password the user entered.
InitMigrate ==
    /\ \E c \in StoredConfigs \ {Null}, pw \in Passwords :
         /\ stored = [c EXCEPT !.password = encrypt(pw)]
         /\ load = [NoLoad EXCEPT !.origin = pw]
    /\ secure \in {NoSecret} \cup {Secret(TRUE, pw) : pw \in Passwords}
    /\ lastSync = "old"
    /\ dirExists = FALSE
    /\ local = EmptyLocal
    /\ remote = EmptyRemote
    /\ fg = Idle
    /\ faults = 0
    /\ log = <<>>
    /\ told = <<>>
    /\ snap = NoSnap
    /\ chain = NoChain
    /\ bg = <<>>
    /\ gestures = 0
    /\ entry = NoEntry
    /\ crypt = NoCrypt
    /\ call = NoCall

NoLoadRuns == load.pc \in {"none", "DONE"}

\* saveSettings of the settings screen: the record is written with the
\* password obfuscated by encrypt, or empty when none is entered.
saveSettings(url, password, enabled) ==
    /\ NoLoadRuns
    /\ stored' = [Config(TRUE, url, enabled, FALSE, NoKey) EXCEPT
                    !.password = IF password = Empty THEN Empty ELSE encrypt(password)]
    /\ load' = [load EXCEPT !.pc = "none",
                            !.migrated = FALSE,
                            !.saved = TRUE,
                            !.origin = IF password = Empty THEN load.origin ELSE password]
    /\ UNCHANGED <<call, syncVars, crypt, secure>>

\* A load of the configuration begins: the record is read, and a non-empty
\* legacy field starts the migration.
LoadConfig ==
    /\ NoLoadRuns
    /\ stored.present
    /\ LET legacy == stored.password # Empty IN
       load' = [load EXCEPT
                  !.pc = IF legacy THEN "LEGACY_PRESENT" ELSE "DONE",
                  !.config = stored,
                  !.legacy = legacy,
                  !.before = [stored |-> stored, secure |-> secure],
                  !.result = IF legacy THEN NoSecret ELSE getPassword]
    /\ UNCHANGED <<call, syncVars, crypt, stored, secure>>

DecryptLegacy ==
    /\ load.pc = "LEGACY_PRESENT"
    /\ load' = [load EXCEPT !.pc = "DECRYPT_LEGACY",
                            !.value = decryptLegacy(load.config.password)]
    /\ UNCHANGED <<call, syncVars, crypt, stored, secure>>

StoreSecure ==
    /\ load.pc = "DECRYPT_LEGACY"
    /\ secure' = storePassword(load.value)
    /\ load' = [load EXCEPT !.pc = "STORE_SECURE"]
    /\ UNCHANGED <<call, syncVars, crypt, stored>>

BlankLegacyField ==
    /\ load.pc = "STORE_SECURE"
    /\ load' = [load EXCEPT !.pc = "BLANK_LEGACY_FIELD", !.config.password = Empty]
    /\ UNCHANGED <<call, syncVars, crypt, stored, secure>>

PersistConfig ==
    /\ load.pc = "BLANK_LEGACY_FIELD"
    /\ stored' = load.config
    /\ load' = [load EXCEPT !.pc = "PERSIST_CONFIG"]
    /\ UNCHANGED <<call, syncVars, crypt, secure>>

Done ==
    /\ load.pc = "PERSIST_CONFIG"
    /\ load' = [load EXCEPT !.pc = "DONE", !.migrated = TRUE, !.result = getPassword]
    /\ UNCHANGED <<call, syncVars, crypt, stored, secure>>

NextMigrate ==
    \/ \E url \in {"", "u"}, password \in Passwords \cup {Empty}, enabled \in BOOLEAN :
         saveSettings(url, password, enabled)
    \/ LoadConfig
    \/ DecryptLegacy
    \/ StoreSecure
    \/ BlankLegacyField
    \/ PersistConfig
    \/ Done

SpecMigrate == InitMigrate /\ [][NextMigrate]_vars

\* A payload that does not split into three parts.
Malformed == <<Text("x"), Text("y")>>

\* The service on a remote collection of mixed origin: objects encrypted
\* under another key than the configured one, damaged objects, and plain
\* objects next to encrypted ones.
InitMixed ==
    /\ stored \in {Config(TRUE, "u", TRUE, TRUE, K1), Config(TRUE, "u", TRUE, TRUE, K2),
                    Config(TRUE, "u", TRUE, FALSE, K1)}
    /\ lastSync = "old"
    /\ dirExists = TRUE
    /\ local \in {l \in InitLocalStores : l[<<"B", MD>>] = Absent /\ l[<<"C", MD>>] = Absent}
    /\ remote \in {r \in [RemoteNames -> {Absent, Q, Malformed,
                                           encryptContent(Q, K1, "s1", "iv1")}] :
                      /\ \A n \in RemoteNames :
                           /\ endsWith(n, ENC) => r[n] # Q
                           /\ ~endsWith(n, ENC) => r[n] \in {Absent, Q}
                      /\ r[<<"A", MD>>] = Absent /\ r[<<"C", MD>>] = Absent}
    /\ fg = Idle
    /\ faults = 0
    /\ log = <<>>
    /\ told = <<>>
    /\ snap = NoSnap
    /\ chain = NoChain
    /\ bg = <<>>
    /\ gestures = 0
    /\ entry = NoEntry
    /\ crypt = NoCrypt
    /\ secure = NoSecret
    /\ load = NoLoad
    /\ call = NoCall

SpecMixed == InitMixed /\ [][Next]_vars

-----------------------------------------------------------------------------
(* The conversions of names on their own *)

MaxConversions == 2

\* Names handed to the service: entry names, object names, names carrying
\* the suffix twice and names that are nothing but suffixes.
NameInputs ==
    {<<"A", MD>>, <<"A", MD, ENC>>, <<"A", MD, ENC, ENC>>, <<"A">>, <<"A", ENC>>,
     <<ENC>>}

\* The configurations with which the service gets past getConfig.
UsableConfigs == {c \in StoredConfigs : getConfig(c) # Null}

\* A chain of conversions: outs[1] is the name handed in and outs[i + 1] the
\* name conversion ops[i] made of outs[i].
Conv(config, ops, outs) ==
    [op |-> "names", config |-> config, ops |-> ops, outs |-> outs]

InitNames ==
    /\ \E c \in UsableConfigs, n \in NameInputs :
         /\ stored = c
         /\ call = Conv(c, <<>>, <<n>>)
    /\ lastSync = "old"
    /\ dirExists = FALSE
    /\ local = EmptyLocal
    /\ remote = EmptyRemote
    /\ fg = Idle
    /\ faults = 0
    /\ log = <<>>
    /\ told = <<>>
    /\ snap = NoSnap
    /\ chain = NoChain
    /\ bg = <<>>
    /\ gestures = 0
    /\ entry = NoEntry
    /\ crypt = NoCrypt
    /\ secure = NoSecret
    /\ load = NoLoad

Converted(op, name) ==
    /\ call.op = "names"
    /\ Len(call.ops) < MaxConversions
    /\ call' = [call EXCEPT !.ops = Append(@, op), !.outs = Append(@, name)]
    /\ UNCHANGED <<syncVars, stored, crypt, secure, load>>

NameIn == call.outs[Len(call.outs)]

\* uploadFile names the object it PUTs.
UploadName == Converted("upload", uploadName(call.config, NameIn))

\* deleteFile names the object it DELETEs.
DeleteName == Converted("delete", deleteName(call.config, NameIn))

\* downloadFile names the object it GETs.
DownloadName == Converted("download", downloadName(call.config, NameIn))

\* downloadFile names the local file it writes.
SaveName == Converted("save", saveName(NameIn))

NextNames == UploadName \/ DeleteName \/ DownloadName \/ SaveName

SpecNames == InitNames /\ [][NextNames]_vars

-----------------------------------------------------------------------------
(* Listing a collection that holds any kind of object *)

\* The hrefs a PROPFIND answer may carry, in the order the server lists
\* them: entries, encrypted entries, other files, names in upper case and a
\* name that carries the suffix twice.
ObjectOrder ==
    <<<<"A", MD>>, <<"A", MD, ENC>>, <<"B", MD, ENC>>, <<"A", ".txt">>,
      <<"A", ".txt", ENC>>, <<"A", ".MD">>, <<"B", MD, ".ENC">>,
      <<"C", MD, ENC, ENC>>>>

\* A listing on its own: the answer, the local index, the names derived
\* from the answer, the status and the downloads chosen from them, and the
\* objects requested.
Listing(config, hrefs, localFiles) ==
    [op |-> "listing", pc |-> "start", config |-> config, hrefs |-> hrefs,
     localFiles |-> localFiles, remoteFiles |-> <<>>, status |-> DefaultStatus,
     files |-> <<>>, i |-> 0, gets |-> <<>>]

InitListing ==
    /\ \E c \in UsableConfigs, objects \in SUBSET Range(ObjectOrder),
          entries \in SUBSET {<<"A", MD>>} :
         /\ stored = c
         /\ call = Listing(c, SelectSeq(ObjectOrder, LAMBDA h : h \in objects),
                           SelectSeq(LocalOrder, LAMBDA n : n \in entries))
    /\ lastSync = "old"
    /\ dirExists = TRUE
    /\ local = EmptyLocal
    /\ remote = EmptyRemote
    /\ fg = Idle
    /\ faults = 0
    /\ log = <<>>
    /\ told = <<>>
    /\ snap = NoSnap
    /\ chain = NoChain
    /\ bg = <<>>
    /\ gestures = 0
    /\ entry = NoEntry
    /\ crypt = NoCrypt
    /\ secure = NoSecret
    /\ load = NoLoad

\* listRemoteFiles parses the answer.
ListRemoteFiles ==
    /\ call.op = "listing" /\ call.pc = "start"
    /\ call' = [call EXCEPT !.pc = "listed",
                            !.remoteFiles = parseHrefs(call.config, call.hrefs)]
    /\ UNCHANGED <<syncVars, stored, crypt, secure, load>>

\* checkSyncStatus compares the two listings.
CompareListings ==
    /\ call.op = "listing" /\ call.pc = "listed"
    /\ call' = [call EXCEPT !.pc = "checked",
                            !.status = computeStatus(call.localFiles, call.remoteFiles)]
    /\ UNCHANGED <<syncVars, stored, crypt, secure, load>>

\* importFromWebDAV chooses the files to download.
SelectDownloads ==
    /\ call.op = "listing" /\ call.pc = "listed"
    /\ call' = [call EXCEPT !.pc = "loop", !.i = 1,
                            !.files = filesToDownload(call.remoteFiles, call.localFiles)]
    /\ UNCHANGED <<syncVars, stored, crypt, secure, load>>

\* downloadFile requests the object of the next file.
RequestDownload ==
    /\ call.op = "listing" /\ call.pc = "loop"
    /\ call.i <= Len(call.files)
    /\ call' = [call EXCEPT !.i = @ + 1,
                            !.gets = Append(@, downloadName(call.config, call.files[call.i]))]
    /\ UNCHANGED <<syncVars, stored, crypt, secure, load>>

NextListing == ListRemoteFiles \/ CompareListings \/ SelectDownloads \/ RequestDownload

SpecListing == InitListing /\ [][NextListing]_vars

-----------------------------------------------------------------------------
(* Vocabulary of the properties *)

Configured == getConfig(stored) # Null
Returned(op) == fg.op = op /\ fg.pc = "done"
Requests(method) == {i \in 1..Len(log) : log[i].method = method}
ListingAnswered == \E i \in Requests("PROPFIND") : log[i].ok
ListingFailed == \E i \in Requests("PROPFIND") : ~log[i].ok
NoDuplicates(s) == \A i, j \in 1..Len(s) : s[i] = s[j] => i = j

\* The two indexes as they were when the current call listed them.
SnapL == localEntries(snap.local)
SnapR == remoteEntries(stored, snap.remote)

-----------------------------------------------------------------------------
(* C1 *)

\* C1: when sync is configured and the remote listing is answered,
\* checkSyncStatus returns localOnly = L \ R and remoteOnly = R \ L for the
\* local index L and the remote index R it listed, and inSync is true exactly
\* when both are empty.
C1_StatusIsSetDifference ==
    (Returned("check") /\ Configured /\ ListingAnswered) =>
        /\ Range(fg.status.localOnly) = SnapL \ SnapR
        /\ Range(fg.status.remoteOnly) = SnapR \ SnapL
        /\ NoDuplicates(fg.status.localOnly)
        /\ NoDuplicates(fg.status.remoteOnly)
        /\ fg.status.inSync <=> (SnapL \ SnapR = {} /\ SnapR \ SnapL = {})

\* local = {A, B}, remote = {B, C}: localOnly = {A}, remoteOnly = {C}.
C1_Witness ==
    /\ Returned("check") /\ Configured /\ ListingAnswered
    /\ SnapL = {<<"A", MD>>, <<"B", MD>>}
    /\ SnapR = {<<"B", MD>>, <<"C", MD>>}
    /\ fg.status.localOnly = <<(<<"A", MD>>)>>
    /\ fg.status.remoteOnly = <<(<<"C", MD>>)>>
    /\ ~fg.status.inSync

-----------------------------------------------------------------------------
(* C2 *)

\* C2: when sync is configured and the remote listing request fails,
\* checkSyncStatus returns localOnly = {}, remoteOnly = {}, inSync = true,
\* whatever the local index holds.
C2_FailedListingReportsInSync ==
    (Returned("check") /\ Configured /\ ListingFailed) =>
        /\ fg.status.localOnly = <<>>
        /\ fg.status.remoteOnly = <<>>
        /\ fg.status.inSync

-----------------------------------------------------------------------------
(* C3 *)

IsBatch == fg.op \in {"syncAll", "import"}
AfterLoop == IsBatch /\ fg.pc = "done" /\ fg.i > 0

\* The entries whose transfer was answered with success, read off the
\* requests: an answered PUT to the entry's upload name, an answered GET of
\* the entry's download name followed by a local write.
Put(f) == {i \in Requests("PUT") : log[i].name \in {f, plusEnc(f)}}
Got(f) == {i \in Requests("GET") : log[i].name \in {f, plusEnc(f)}}
Transferred(f) ==
    IF fg.op = "syncAll"
    THEN \E i \in Put(f) : log[i].ok /\ remote[log[i].name] = log[i].body
    ELSE (\E i \in Got(f) : log[i].ok) /\ local[f] # Absent
ErrorsFor(f) == {i \in 1..Len(fg.result.errors) : fg.result.errors[i].file = f}

\* C3: a batch that has entered its loop goes through every selected file:
\* when it returns, each selected file either was transferred or has exactly
\* one entry in errors, count is the number of transferred files, and success
\* is false as soon as one transfer failed.
C3_BestEffortBatch ==
    AfterLoop =>
        LET selected == Range(fg.files)
            done == {f \in selected : Transferred(f)}
        IN /\ fg.i = Len(fg.files) + 1
           /\ fg.result.count = Cardinality(done)
           /\ \A f \in done : ErrorsFor(f) = {}
           /\ \A f \in selected \ done : Cardinality(ErrorsFor(f)) = 1
           /\ (selected # done) => ~fg.result.success

\* Three uploads, the second fails: count = 2, one error, files 1 and 3 on
\* the remote.
C3_Witness ==
    /\ Returned("syncAll")
    /\ fg.files = <<(<<"A", MD>>), (<<"B", MD>>), (<<"C", MD>>)>>
    /\ fg.result.count = 2
    /\ fg.result.errors = <<Err("Failed to upload", <<"B", MD>>)>>
    /\ ~fg.result.success
    /\ Transferred(<<"A", MD>>) /\ Transferred(<<"C", MD>>)
    /\ ~Transferred(<<"B", MD>>)

-----------------------------------------------------------------------------
(* C4 *)

\* C4: every result a batch operation returns, the early returns included,
\* has success true if and only if errors is empty.
C4_SuccessIffNoErrors ==
    (IsBatch /\ fg.pc = "done") =>
        (fg.result.success <=> Len(fg.result.errors) = 0)

-----------------------------------------------------------------------------
(* C5 *)

\* The configuration is absent: nothing stored, enabled = false or no URL.
SyncOff == ~stored.present \/ ~stored.enabled \/ stored.url = ""

\* C5 as stated: with the configuration absent the batch operations return
\* an empty successful result carrying an explanatory error string.
C5_NotConfiguredIsSuccess ==
    (SyncOff /\ IsBatch /\ fg.pc = "done") =>
        /\ fg.result.success
        /\ fg.result.count = 0
        /\ Len(fg.result.errors) = 1

\* C5, amended: with the configuration absent no operation sends a request,
\* starts a background transfer, or changes the remote store, the timestamp
\* or (the sync calls) the local store; every call returns at once;
\* checkSyncStatus returns the empty in-sync snapshot and the batch
\* operations return count 0 with success = false and the one error
\* 'WebDAV not configured'.
C5_NotConfiguredIsNoOp ==
    /\ [](SyncOff =>
            /\ log = <<>>
            /\ bg = <<>>
            /\ fg.pc \in {"idle", "done"}
            /\ (IsBatch /\ fg.pc = "done") =>
                 fg.result = Result(FALSE, 0, <<Err("WebDAV not configured", <<>>)>>)
            /\ Returned("check") => fg.status = Status(TRUE, <<>>, <<>>, 0, 0))
    /\ [][SyncOff =>
            /\ remote' = remote
            /\ lastSync' = lastSync
            /\ fg' # fg => (local' = local /\ dirExists' = dirExists)]_vars

\* Sync is switched off, an entry has been saved, and a batch
\* call has returned.
C5_Witness ==
    /\ stored.present /\ ~stored.enabled /\ stored.url # ""
    /\ gestures > 1
    /\ local[<<"A", MD>>] = W
    /\ Returned("syncAll")
    /\ fg.result.errors = <<Err("WebDAV not configured", <<>>)>>

-----------------------------------------------------------------------------
(* C6 *)

\* The entry a request names, and the payloads that are ciphertext.
EntryOf(name) == IF endsWith(name, ENC) THEN sliceEnc(name) ELSE name
IsEncrypted(body) == Len(body) = 3 /\ body[3].kind = "aes"
PlainOf(body) == IF IsEncrypted(body) THEN body[3].pt ELSE body

\* The remote index as the call observed it: empty when its listing failed.
ObservedR == IF ListingAnswered THEN SnapR ELSE {}

\* C6: importFromWebDAV requests a download only for entries of R \ L, by
\* the time it returns it has requested each of them exactly once, and every
\* file that was in the local index when import listed it still has the
\* content it had then.
C6_ImportDownloadsRemoteOnly ==
    (fg.op = "import" /\ snap.listed) =>
        LET remoteOnly == ObservedR \ SnapL IN
        /\ \A i \in Requests("GET") : EntryOf(log[i].name) \in remoteOnly
        /\ \A f \in SnapL : Got(f) = {} /\ local[f] = snap.local[f]
        /\ fg.pc = "done" => \A f \in remoteOnly : Cardinality(Got(f)) = 1

\* local = {A, B}, remote = {B, C} with different contents for B: exactly C
\* is downloaded, count = 1.
C6_Witness ==
    /\ Returned("import")
    /\ SnapL = {<<"A", MD>>, <<"B", MD>>}
    /\ SnapR = {<<"B", MD>>, <<"C", MD>>}
    /\ PlainOf(snap.remote[remoteObject(stored, <<"B", MD>>)]) # snap.local[<<"B", MD>>]
    /\ fg.files = <<(<<"C", MD>>)>>
    /\ fg.result = Result(TRUE, 1, <<>>)
    /\ local[<<"C", MD>>] # Absent

-----------------------------------------------------------------------------
(* C7 *)

\* C7: syncAllToWebDAV selects for upload exactly the entries of L \ R, each
\* once, sends no PUT for an entry that is on the remote, and when every
\* upload succeeds the count is |L \ R|.
C7_UploadsLocalOnly ==
    (Returned("syncAll") /\ snap.listed) =>
        LET localOnly == SnapL \ SnapR IN
        /\ Range(fg.files) = localOnly
        /\ NoDuplicates(fg.files)
        /\ \A i \in Requests("PUT") : EntryOf(log[i].name) \in localOnly
        /\ Len(fg.result.errors) = 0 => fg.result.count = Cardinality(localOnly)

-----------------------------------------------------------------------------
(* C8 *)

\* C8: after syncAllToWebDAV, then importFromWebDAV, then checkSyncStatus,
\* every request answered and every transfer successful, the local index
\* and the remote index as listRemoteFiles returns it both equal L \cup R of
\* the start, and the status check reports inSync.
C8_Convergence ==
    chain.stage = "checked" =>
        /\ localEntries(local) = chain.U
        /\ Range(listRemoteFiles(TRUE)) = chain.U
        /\ fg.status.inSync

-----------------------------------------------------------------------------
(* C9 *)

\* The entries that were on both sides, with different contents, when the
\* current call listed.
Drifted ==
    {f \in SnapL \cap SnapR :
        PlainOf(snap.remote[remoteObject(stored, f)]) # snap.local[f]}

\* C9: an entry present on both sides with different contents is reported
\* neither in localOnly nor in remoteOnly, and no call of checkSyncStatus,
\* syncAllToWebDAV or importFromWebDAV changes its local or its remote
\* content.
C9_PresenceOnly ==
    snap.listed =>
        \A f \in Drifted :
            /\ f \notin Range(fg.status.localOnly) \cup Range(fg.status.remoteOnly)
            /\ local[f] = snap.local[f]
            /\ remote[remoteObject(stored, f)] = snap.remote[remoteObject(stored, f)]

-----------------------------------------------------------------------------
(* C10 *)

\* C10: with encryption enabled in the configuration, every PUT that
\* uploadFile sends goes to an '.enc' name and carries an encrypted payload.
C10_NoPlaintextUpload ==
    \A i \in Requests("PUT") :
        log[i].enc => endsWith(log[i].name, ENC) /\ IsEncrypted(log[i].body)

-----------------------------------------------------------------------------
(* C11 *)

\* A step of the entry screen (saveEntry or deleteEntry with its
\* syncAfterSave / syncAfterDelete), and a step of a background transfer.
EntryStep == gestures' # gestures /\ fg' = fg /\ snap' = snap
BgStep == gestures' = gestures /\ bg' # bg

\* C11: syncAfterSave and syncAfterDelete return before any request of
\* theirs is sent or answered, whatever the network does: the step that saves
\* or deletes an entry sends nothing, consumes no answer and leaves the
\* remote store and the timestamp alone, and any transfer it starts is still
\* to run.  A background transfer ends on every outcome, surfaces nothing in
\* the foreground call and never touches the local store.
C11_FireAndForget ==
    [][/\ EntryStep =>
            /\ log' = log /\ faults' = faults
            /\ remote' = remote /\ lastSync' = lastSync
            /\ Len(bg') \in {Len(bg), Len(bg) + 1}
            /\ \A k \in 1..Len(bg') : k > Len(bg) => bg'[k].phase = "run"
       /\ BgStep =>
            /\ local' = local /\ dirExists' = dirExists /\ fg' = fg
            /\ Len(bg') <= Len(bg)]_vars

\* An entry was saved, its background upload failed, and the entry is in the
\* local store all the same while the remote store never received it.
C11_Witness ==
    /\ Configured
    /\ gestures = 1
    /\ bg = <<>>
    /\ local[<<"A", MD>>] = W
    /\ \E i \in Requests("PUT") : ~log[i].ok /\ EntryOf(log[i].name) = <<"A", MD>>
    /\ remote[remoteObject(stored, <<"A", MD>>)] = Absent

-----------------------------------------------------------------------------
(* C12 *)

\* C12: importFromWebDAV calls onProgress once for every file whose download
\* it attempts and for no other: the k-th call carries current = k, the
\* number n of files to download as total, and the k-th file of the list;
\* each reported file is being downloaded or has had its GET, whether that
\* succeeded or failed; a returned import has made exactly n calls; no
\* other operation calls it.
C12_ProgressOncePerFile ==
    /\ fg.op # "import" => told = <<>>
    /\ fg.op = "import" =>
         /\ Len(told) <= Len(fg.files)
         /\ \A k \in 1..Len(told) :
              /\ told[k].current = k
              /\ told[k].total = Len(fg.files)
              /\ told[k].filename = fg.files[k]
              /\ k \in fg.flying \/ Cardinality(Got(told[k].filename)) = 1
         /\ \A f \in Range(fg.files) :
              Got(f) # {} => \E k \in 1..Len(told) : told[k].filename = f
         /\ fg.pc \in {"finish", "done"} => Len(told) = Len(fg.files)

\* Two files to download, the first fails and the second succeeds: two
\* calls, (1, 2, first) and (2, 2, second).
C12_Witness ==
    /\ Returned("import")
    /\ Len(fg.files) = 2
    /\ fg.result.count = 1
    /\ fg.result.errors = <<Err("Failed to download", fg.files[1])>>
    /\ Len(told) = 2
    /\ told[1].current = 1 /\ told[1].total = 2 /\ told[1].filename = fg.files[1]
    /\ told[2].current = 2 /\ told[2].total = 2 /\ told[2].filename = fg.files[2]

-----------------------------------------------------------------------------
(* C13 *)

\* C13: when onProgress reports current = k, the download of the k-th file
\* has already been attempted: its GET was sent before the call.
C13_ProgressAfterTransfer ==
    fg.op = "import" =>
        \A k \in 1..Len(told) :
            \E i \in Got(told[k].filename) : i <= told[k].at

-----------------------------------------------------------------------------
(* C14 *)

\* The position of an entry in the list of the batch.
Pos(f) == CHOOSE k \in 1..Len(fg.files) : fg.files[k] = f
Transfers == Requests("GET") \cup Requests("PUT")

\* C14: a batch has at most one of its transfers in flight, and that one is
\* the transfer it called last: every file before it in the list has
\* returned, and the requests of the batch follow the order of the list.
C14_OneTransferInFlight ==
    IsBatch =>
        /\ Cardinality(fg.flying) <= 1
        /\ \A k \in fg.flying : k = fg.i - 1
        /\ \A i, j \in Transfers :
             i < j => Pos(EntryOf(log[i].name)) < Pos(EntryOf(log[j].name))

\* The second of three transfers is in flight and the first has returned.
C14_Witness ==
    /\ IsBatch /\ fg.pc = "loop"
    /\ Len(fg.files) = 3
    /\ fg.flying = {2}
    /\ Cardinality(Transfers) = 1
    /\ \A i \in Transfers : EntryOf(log[i].name) = fg.files[1]

-----------------------------------------------------------------------------
(* C15 *)

\* The entries whose remote object was encrypted under another key than the
\* configured one.
WrongKey ==
    {f \in LocalNames :
        /\ useKey(stored)
        /\ IsEncrypted(snap.remote[plusEnc(f)])
        /\ snap.remote[plusEnc(f)][3].key # stored.encryptionKey}

\* C15: decrypting under K2 what was encrypted under K1 ends in an error and
\* never in a text: importFromWebDAV writes nothing to the local store for an
\* entry whose remote object was encrypted under another key, and counts no
\* such entry as imported.
C15_WrongKeyFails ==
    (fg.op = "import" /\ snap.listed) =>
        \A f \in WrongKey \ SnapL :
            /\ local[f] = Absent
            /\ \A k \in 1..Len(fg.files) :
                 (fg.files[k] = f /\ k < fg.i /\ k \notin fg.flying) => ErrorsFor(f) # {}

-----------------------------------------------------------------------------
(* C16 *)

-----------------------------------------------------------------------------
(* C17 *)

-----------------------------------------------------------------------------
(* C18 *)

\* C18: once the settings have been saved or the configuration has been
\* loaded, the persisted record holds neither a password, obfuscated or
\* plain, nor an encryption key.
C18_NoSecretInConfig ==
    (NoLoadRuns /\ (load.saved \/ load.pc = "DONE")) =>
        /\ stored.password = Empty
        /\ stored.encryptionKey = NoKey

-----------------------------------------------------------------------------
(* C19 *)

\* The entries the remote collection held, when the call listed it, as a
\* plain '<name>.md' object and as an encrypted '<name>.md.enc' object.
StoredPlain == {f \in LocalNames : snap.remote[f] # Absent}
StoredEnc == {f \in LocalNames : snap.remote[plusEnc(f)] # Absent}

\* C19: with the key at hand and the listing answered, importFromWebDAV
\* requests every remote-only entry whatever the form it is stored in: with
\* encryption enabled the plain objects as well as the encrypted ones, with
\* encryption disabled again the encrypted ones still.
C19_MixedRemotes ==
    (Returned("import") /\ Configured /\ ListingAnswered /\ stored.encryptionKey # NoKey) =>
        /\ stored.encryptionEnabled =>
             \A f \in (StoredPlain \cup StoredEnc) \ SnapL : Got(f) # {}
        /\ ~stored.encryptionEnabled =>
             \A f \in StoredEnc \ SnapL : Got(f) # {}

-----------------------------------------------------------------------------
(* C20 *)

\* The files of the import whose download has returned.
ReturnedFiles == {fg.files[k] : k \in {j \in 1..Len(fg.files) : j < fg.i /\ j \notin fg.flying}}

\* The GET of the entry was answered with its payload.
Received(f) == \E i \in Got(f) : log[i].ok

\* The payload of the entry does not split into three parts.
MalformedPayload(f) ==
    /\ snap.remote[plusEnc(f)] # Absent
    /\ Len(snap.remote[plusEnc(f)]) # 3

\* The payload was received and decryptContent threw.
CryptoFailed(f) == useKey(stored) /\ Received(f) /\ ErrorsFor(f) # {}

\* C20: during importFromWebDAV with decryption on, a received payload that
\* is malformed is a crypto failure; a file whose decryption threw has
\* nothing written to the local store and exactly one error, and is not
\* counted; and the import still goes through every file of its list.
C20_CryptoFailureIsTransferFailure ==
    (fg.op = "import" /\ snap.listed /\ useKey(stored)) =>
        /\ \A f \in ReturnedFiles :
             /\ (Received(f) /\ MalformedPayload(f)) => CryptoFailed(f)
             /\ CryptoFailed(f) =>
                  /\ local[f] = Absent
                  /\ Cardinality(ErrorsFor(f)) = 1
        /\ fg.result.count = Cardinality({f \in ReturnedFiles : ErrorsFor(f) = {}})
        /\ (fg.pc = "done" /\ fg.i > 0) => ReturnedFiles = Range(fg.files)

\* Two files to import: the payload of the first is malformed, the second
\* decrypts; one error, one file imported.
C20_Witness ==
    /\ Returned("import") /\ useKey(stored)
    /\ Len(fg.files) = 2
    /\ MalformedPayload(fg.files[1]) /\ CryptoFailed(fg.files[1])
    /\ local[fg.files[1]] = Absent
    /\ local[fg.files[2]] = Q
    /\ fg.result.count = 1
    /\ fg.result.errors = <<Err("Failed to download", fg.files[1])>>

-----------------------------------------------------------------------------
(* C21 *)

\* C21: decryptContent on a string that does not split at ':' into exactly
\* three parts throws and returns no plaintext, whatever the key and
\* whatever the parts hold.
C21_MalformedPayloadFails ==
    (crypt.pc = "answered" /\ Len(crypt.payload) # 3) =>
        /\ ~crypt.out.ok
        /\ crypt.out = Throws

\* A payload of four parts whose first three are a valid payload for the
\* key was refused.
C21_Witness ==
    /\ crypt.pc = "answered"
    /\ Len(crypt.payload) = 4
    /\ IsEncrypted(SubSeq(crypt.payload, 1, 3))
    /\ crypt.payload[3].key = crypt.dkey
    /\ crypt.out = Throws

-----------------------------------------------------------------------------
(* C22 *)

\* The step of background task k in which its transfer returned true, and
\* the one in which it returned false.
ReturnedTrue(k) == bg' = [bg EXCEPT ![k].phase = "stamp"]
ReturnedFalse(k) == bg' = Without(bg, k)

\* C22: a deleteFile whose request the server answers returns true and
\* leaves the object absent, also when the object was absent already (404):
\* then the remote store is as it was, so a second deleteFile changes nothing
\* the first did not.  deleteFile returns false only when the request fails
\* (another status, an exception), and then the remote store is unchanged.
C22_DeleteIdempotent ==
    [][\A k \in 1..Len(bg) :
         (bg[k].kind = "delete" /\ bg[k].phase = "run" /\ log' # log) =>
             LET name == deleteName(stored, bg[k].file) IN
             /\ ReturnedTrue(k) =>
                  /\ remote' = [remote EXCEPT ![name] = Absent]
                  /\ remote[name] = Absent => remote' = remote
             /\ ReturnedFalse(k) =>
                  /\ remote' = remote
                  /\ faults' = faults + 1]_vars

\* An entry that never was on the remote was deleted locally; its DELETE
\* was answered (404), deleteFile returned true and the timestamp was
\* written.
C22_Witness ==
    /\ Configured
    /\ bg = <<>>
    /\ local[<<"A", MD>>] = Absent
    /\ log = <<Req("DELETE", deleteName(stored, <<"A", MD>>), <<>>,
                   stored.encryptionEnabled, TRUE)>>
    /\ remote[deleteName(stored, <<"A", MD>>)] = Absent
    /\ lastSync = "new"


-----------------------------------------------------------------------------
(* C23 *)

\* Conversion op appends the suffix under the configuration, to a name that
\* lacks it.
Appends(op, config) ==
    \/ op = "upload" /\ useKey(config)
    \/ op \in {"delete", "download"} /\ config.encryptionEnabled

\* C23: the upload, delete and download name of a name that ends in '.enc'
\* is that name, and the local save name of a name that does not end in
\* '.enc' is that name; stripping the name a conversion made of an
\* unsuffixed name gives the unsuffixed name back, and appending to the
\* stripped form of a name that carries the suffix once gives that name back.
C23_SuffixIdempotent ==
    call.op = "names" =>
        \A i \in 1..Len(call.ops) :
            LET x == call.outs[i]
                y == call.outs[i + 1]
                op == call.ops[i]
            IN /\ (op # "save" /\ endsWith(x, ENC)) => y = x
               /\ (op = "save" /\ ~endsWith(x, ENC)) => y = x
               /\ (i > 1 /\ op = "save" /\ call.ops[i - 1] # "save"
                     /\ ~endsWith(call.outs[i - 1], ENC)) => y = call.outs[i - 1]
               /\ (i > 1 /\ op # "save" /\ call.ops[i - 1] = "save"
                     /\ Appends(op, call.config)
                     /\ endsWith(call.outs[i - 1], ENC) /\ ~endsWith(x, ENC))
                    => y = call.outs[i - 1]

\* With a key in use, an entry name was converted to its upload name and
\* that name converted again: the suffix is there once.
C23_Witness ==
    /\ call.op = "names"
    /\ useKey(call.config)
    /\ call.ops = <<"upload", "upload">>
    /\ call.outs = <<<<"A", MD>>, <<"A", MD, ENC>>, <<"A", MD, ENC>>>>


-----------------------------------------------------------------------------
(* C24 *)

\* The step in which importFromWebDAV leaves its loop behind and returns.
ImportReturns == fg.op = "import" /\ fg.pc = "finish" /\ fg'.pc = "done"

\* C24: while importFromWebDAV runs, 'last_sync_time' changes only in the
\* step in which the call returns and only when it imported at least one
\* file; and a call that returns with at least one file imported has written
\* the timestamp, unless the storage refused the write.  A call that
\* imported nothing, or found sync not configured, leaves it as it was.
C24_StampIffImported ==
    [][(fg.op = "import" \/ fg'.op = "import") =>
          /\ lastSync' # lastSync => (ImportReturns /\ fg.result.count > 0)
          /\ (ImportReturns /\ fg.result.count > 0 /\ faults' = faults)
                => lastSync' = "new"
          /\ (fg'.pc = "done" /\ fg'.result.count = 0) => lastSync' = lastSync]_vars

\* An import that found one file to download, failed to download it and
\* returned: the timestamp is the one from before the call.
C24_Witness ==
    /\ Returned("import")
    /\ Len(fg.files) = 1
    /\ fg.result.count = 0
    /\ Len(fg.result.errors) = 1
    /\ lastSync = "old"


-----------------------------------------------------------------------------
(* C25 *)

\* C25: every name listRemoteFiles returns ends in '.md' and does not end in
\* '.enc', whatever the answer holds and whether encryption is enabled; an
\* object whose name, with the suffix '.enc' stripped, does not end in '.md'
\* is neither among the names returned, nor in remoteOnly, nor among the
\* files to download, and no download requests it.
C25_ListedNamesAreEntries ==
    call.op = "listing" =>
        /\ \A n \in Range(call.remoteFiles) : endsWith(n, MD) /\ ~endsWith(n, ENC)
        /\ \A h \in Range(call.hrefs) :
             ~endsWith(saveName(h), MD) =>
                 /\ saveName(h) \notin Range(call.remoteFiles)
                 /\ saveName(h) \notin Range(call.status.remoteOnly)
                 /\ saveName(h) \notin Range(call.files)
                 /\ h \notin Range(call.gets)

\* With encryption enabled the answer held an encrypted entry, an encrypted
\* text file, an encrypted entry with the suffix in upper case and one with
\* the suffix twice; the entry was the one download requested.
C25_Witness ==
    /\ call.op = "listing"
    /\ call.config.encryptionEnabled
    /\ call.hrefs = <<<<"B", MD, ENC>>, <<"A", ".txt", ENC>>, <<"B", MD, ".ENC">>,
                      <<"C", MD, ENC, ENC>>>>
    /\ call.pc = "loop" /\ call.i = 2
    /\ call.gets = <<<<"B", MD, ENC>>>>


-----------------------------------------------------------------------------
(* C26 *)

\* The log holds an answered request of that method for that object.
Answered(method, name) ==
    \E i \in 1..Len(log) :
        log[i].method = method /\ log[i].name = name /\ log[i].ok

\* C26: when an entry was saved and then deleted locally, and both the
\* background upload and the background delete have completed successfully,
\* the remote does not hold the object the upload PUT.
C26_SaveThenDelete ==
    \A f \in LocalNames :
        (/\ Configured
         /\ bg = <<>>
         /\ local[f] = Absent
         /\ Answered("PUT", uploadName(stored, f))
         /\ Answered("DELETE", deleteName(stored, f)))
            => remote[uploadName(stored, f)] = Absent


-----------------------------------------------------------------------------
(* C27 *)

\* C27: a step of a running importFromWebDAV never changes a local file
\* that exists when the step is taken: an import writes a downloaded file
\* only where there is no local file at the moment of the write.
C27_ImportNeverOverwrites ==
    [][(fg.op = "import" /\ fg' # fg) =>
          \A n \in LocalNames : local[n] # Absent => local'[n] = local[n]]_vars


-----------------------------------------------------------------------------
(* C28 *)

\* The last save of the entry screen wrote an existing entry under another
\* name.
Renamed == entry.opened # NoName /\ entry.opened # entry.saved

\* C28: after an existing entry was saved under a changed title and the
\* background upload has completed successfully, the remote holds the object
\* of the new name and no longer the object of the old name; and an
\* importFromWebDAV that follows does not write the old entry back.
C28_RenameKeepsAligned ==
    (Configured /\ Renamed) =>
        /\ (/\ gestures = 1
            /\ bg = <<>>
            /\ Answered("PUT", uploadName(stored, entry.saved)))
              => /\ remote[uploadName(stored, entry.saved)] # Absent
                 /\ remote[remoteObject(stored, entry.opened)] = Absent
        /\ fg.op = "import" => local[entry.opened] = Absent


-----------------------------------------------------------------------------
(* C29 *)

\* C29: with encryption enabled, no local file holds an encrypted payload:
\* what downloadFile writes after fetching an '.enc' object is the decrypted
\* plaintext, or it writes nothing, also when the configuration has no key.
C29_NoCiphertextStoredLocally ==
    (Configured /\ stored.encryptionEnabled) =>
        \A n \in LocalNames : ~IsEncrypted(local[n])


-----------------------------------------------------------------------------
(* C30 *)

\* C30: when importFromWebDAV or syncAllToWebDAV returns after it entered
\* its transfer loop, the files counted and the errors listed add up to the
\* files selected for transfer, also when the call caught an exception.
C30_BatchAccounting ==
    ((Returned("import") \/ Returned("syncAll")) /\ Len(fg.files) > 0) =>
        fg.result.count + Len(fg.result.errors) = Len(fg.files)

====
